---- MODULE Spec2Model ----
(***************************************************************************)
(* Model of the training driver of run_glue.py (function main): the        *)
(* primary epoch/step loop with gradient accumulation, step and epoch      *)
(* checkpoints, resume from a checkpoint, and the per-epoch recording of   *)
(* training dynamics across data-parallel workers.                         *)
(*                                                                         *)
(* Four specifications share the module:                                   *)
(*   Spec     one process's control flow through the primary loop; a run   *)
(*            from scratch, then optionally a second process resumed from  *)
(*            a checkpoint the first one saved.                            *)
(*   SpecDyn  N worker processes running the loop side by side, with the   *)
(*            collectives (barrier, gather) of the recording pass.         *)
(*   SpecCont one process followed past the primary loop: the KeyError of  *)
(*            the sample-weight lookup, the final save, the frozen         *)
(*            reference model and the continuation loop.                   *)
(*   SpecFn   single calls of parse_args and of the loss computations.     *)
(***************************************************************************)
EXTENDS Integers, Sequences, FiniteSets, TLC

(* ------------------------------ bounds --------------------------------- *)
\* largest len(train_dataloader)
MaxBatches == 4
\* largest --gradient_accumulation_steps
MaxAccum == 4
\* largest --num_train_epochs
MaxEpochs == 3
\* largest --max_train_steps given on the command line
MaxStepsArg == 4
\* largest integer --checkpointing_steps
MaxCkpt == 5
\* largest number of worker processes (accelerator.num_processes)
MaxProcesses == 2
\* largest len(train_dataset)
MaxExamples == 3
\* largest --per_device_train_batch_size
MaxBatchSize == 2
\* largest --num_train_epochs of the multi-process runs
MaxDynEpochs == 2

VARIABLES
    args,               \* the parsed arguments, after main's recalculation
    len_train_dataloader, \* len(train_dataloader), batches per epoch
    run,                \* 1: the process started from scratch, 2: the resumed one
    pc,                 \* position of the process in main
    epoch,              \* loop variable of the primary loop
    step,               \* loop variable of the batch loop
    starting_epoch,
    resume_step,        \* NoStep when None
    completed_steps,
    optimizer_steps,    \* number of optimizer.step() calls applied to the parameters
    scheduler_steps,    \* number of lr_scheduler.step() calls
    zero_grads,         \* number of optimizer.zero_grad() calls in this process
    pending,            \* batches whose gradients sit in the buffers, not yet applied
    checkpoints,        \* what accelerator.save_state has put on disk
    save_log,           \* names given to save_state by this process, in order
    trained,            \* <<epoch, step>> of the batches this process trained, in order
    skipped,            \* <<epoch, step>> of the batches this process skipped
    last,               \* what the last iteration of the batch loop did
    first_run,          \* how the run from scratch ended (kept when a resumed run starts)
    loaded,             \* the state accelerator.load_state restored, if any
    \* ---- the worker processes of a data-parallel run (SpecDyn) ----
    env,                \* num_processes, len(train_dataset), batch size, idx column, do_recording
    wpc,                \* each worker's position in main
    wepoch,             \* each worker's `epoch`
    wstep,              \* each worker's `step` (batch loop or recording loop)
    wcompleted,         \* each worker's completed_steps
    woptimizer,         \* optimizer.step() calls each worker has applied to its parameters
    arrived,            \* number of collectives (barrier, gather) each worker has entered
    order,              \* the order in which the running recording pass's dataloader
                        \* yields the examples (<<>> outside the pass)
    order_epoch,        \* the epoch `order` was drawn for
    all_ids,            \* each worker's all_ids (<<>> once the pass is over: not read again)
    training_dynamics,  \* each worker's training_dynamics (likewise)
    dynamics_file,      \* per epoch: "absent", "open" or "closed"
    writer,             \* the open file: its epoch, the worker, the lines written so far
    written,            \* per epoch: the lines of the closed file, as a bag of <<guid, gold>>
    \* ---- after the primary loop: final save and continued training (SpecCont) ----
    opts,               \* the arguments main reads outside the step arithmetic, and
                        \* accelerator.is_main_process of the process modelled
    phase,              \* position of the process after (or in) the primary phase
    output_dir_model,   \* the parameters save_pretrained left in args.output_dir
    model_orig,         \* the parameters of the frozen reference model
    primary_end,        \* the active model's parameters when the primary loop ended
    final_saves,        \* number of save_pretrained calls made by this process
    recorded,           \* the epochs whose recording pass this process ran, in order
    cont_epoch,         \* `epoch` of the continuation loop
    cont_step,          \* `step` of the continuation loop
    cont_batches,       \* number of batches the continuation loop has processed
    continue_scheduler_steps, \* number of continue_lr_scheduler.step() calls
    \* ---- one call of a function of the module (SpecFn) ----
    call,               \* the function and its arguments
    result,             \* what the call returned or raised (status "pending" before)
    raw_datasets        \* "unloaded" until main has loaded the datasets

ctlvars == <<run, pc, epoch, step, starting_epoch,
             resume_step, completed_steps, optimizer_steps, scheduler_steps,
             zero_grads, pending, checkpoints, save_log, trained, skipped, last,
             first_run, loaded>>

dynvars == <<env, wpc, wepoch, wstep, wcompleted, woptimizer, arrived, order, order_epoch,
             all_ids, training_dynamics, dynamics_file, writer, written>>

contvars == <<opts, phase, output_dir_model, model_orig, primary_end, final_saves,
              recorded, cont_epoch, cont_step, cont_batches, continue_scheduler_steps>>

fnvars == <<call, result, raw_datasets>>

vars == <<args, len_train_dataloader, ctlvars, dynvars, contvars, fnvars>>

(* ----------------------------- helpers --------------------------------- *)
\* math.ceil(a / b) for a >= 0, b >= 1
CeilDiv(a, b) == (a + b - 1) \div b

Min(a, b) == IF a <= b THEN a ELSE b

\* resume_step = None
NoStep == -1

\* --max_train_steps absent (default=None)
NoMax == -1

\* values of checkpointing_steps after lines 616-621, and of a checkpoint's name
CkptNone == [kind |-> "none", n |-> 0]
CkptEpoch == [kind |-> "epoch", n |-> 0]
CkptInt(c) == [kind |-> "int", n |-> c]

StepName(s) == [kind |-> "step", n |-> s]
EpochName_Next(e) == [kind |-> "epoch", n |-> e + 1]
EpochName(e) == [kind |-> "epoch", n |-> e]
NoCheckpoint == [kind |-> "none", n |-> 0]

(* ------------------- arithmetic of the training steps ------------------ *)
\* num_update_steps_per_epoch
NumUpdateStepsPerEpoch(n, k) == CeilDiv(n, k)

\* args.max_train_steps after lines 591-611
MaxTrainSteps(given, epochs, n, k) ==
    IF given = NoMax THEN epochs * NumUpdateStepsPerEpoch(n, k) ELSE given

\* args.num_train_epochs after line 613
NumTrainEpochs(given, epochs, n, k) ==
    CeilDiv(MaxTrainSteps(given, epochs, n, k), NumUpdateStepsPerEpoch(n, k))

\* the arguments as main uses them in the loop
Args(given, epochs, n, k, cps, resume) ==
    [gradient_accumulation_steps |-> k,
     given_max_train_steps |-> given,
     given_num_train_epochs |-> epochs,
     max_train_steps |-> MaxTrainSteps(given, epochs, n, k),
     num_train_epochs |-> NumTrainEpochs(given, epochs, n, k),
     checkpointing_steps |-> cps,
     resume_from_checkpoint |-> resume]

(* --------------------------- resume arithmetic ------------------------- *)
\* an epoch checkpoint resumed at its own epoch
StartingEpoch_SameEpoch(name, n) ==
    IF name.kind = "epoch" THEN name.n ELSE name.n \div n

\* starting_epoch for a checkpoint name, lines 677-682
StartingEpoch(name, n) ==
    IF name.kind = "epoch" THEN name.n + 1 ELSE name.n \div n

\* resume_step for a checkpoint name, lines 679-683
ResumeStep(name, n) ==
    IF name.kind = "epoch" THEN NoStep
    ELSE name.n - StartingEpoch(name, n) * n

\* the skip-ahead applied in every epoch
SkipBatch_EveryEpoch(resume, e, start, s, rstep) ==
    /\ resume.kind # "none"
    /\ rstep # NoStep
    /\ s < rstep

\* line 713-714: the batch is skipped
SkipBatch(resume, e, start, s, rstep) ==
    /\ resume.kind # "none"
    /\ e = start
    /\ rstep # NoStep
    /\ s < rstep

(* ------------------------------ one batch ------------------------------ *)
\* the end-of-epoch flush left out
IsAccumulationBoundary_NoFlush(s, k, n) == s % k = 0

\* line 736: the batch ends an accumulation window
IsAccumulationBoundary(s, k, n) == s % k = 0 \/ s = n - 1

\* completed_steps counted per batch
CompletedAfterBatch_PerBatch(cs, boundary) == cs + 1

\* line 741: completed_steps after a trained batch
CompletedAfterBatch(cs, boundary) == IF boundary THEN cs + 1 ELSE cs

\* lines 743-744: a step checkpoint is written after this batch
SavesStepCheckpoint(cps, cs) == cps.kind = "int" /\ cs % cps.n = 0

\* line 750: the batch loop is left
ReachedMax(cs, max) == cs >= max

\* accelerator.save_state(name): the directory holds the last state saved under
\* it; `trained` notes the batches the saving process had trained by then
SaveState(store, name, osteps, ssteps, tr) ==
    {c \in store : c.name # name}
        \cup {[name |-> name, optimizer_steps |-> osteps, scheduler_steps |-> ssteps,
                trained |-> tr]}

NoBatch == [kind |-> "none", epoch |-> 0, step |-> 0, stepped |-> FALSE,
            saved |-> FALSE, exit |-> "none", window |-> 0, completed_before |-> 0]

\* nothing loaded: a run from scratch
NoState == [name |-> NoCheckpoint, optimizer_steps |-> 0, scheduler_steps |-> 0,
            trained |-> <<>>]

(* -------------------------------- Init --------------------------------- *)
\* no model: nothing in args.output_dir, or model_orig not assigned
NoModel == -1

\* --output_dir absent, no recording, no continued training, plain loss
NoOptions == [output_dir |-> FALSE, do_recording |-> FALSE, continue_train |-> FALSE,
              do_lwf |-> FALSE, continue_num_train_epochs |-> 1,
              train_with_sample_loss |-> FALSE,
              continue_train_with_sample_loss |-> FALSE, is_main_process |-> TRUE]

\* a process that has not left the primary loop yet
InitAfterLoop ==
    /\ phase = "primary"
    /\ model_orig = NoModel
    /\ primary_end = NoModel
    /\ final_saves = 0
    /\ recorded = <<>>
    /\ cont_epoch = 0
    /\ cont_step = 0
    /\ cont_batches = 0
    /\ continue_scheduler_steps = 0

\* no function call under way: the specifications of main
NoCall ==
    /\ call = [fn |-> "none"]
    /\ result = [status |-> "pending", value |-> "none"]
    /\ raw_datasets = "loaded"

\* the process has ended, or is taken to be killed before the final save
ProcessOver ==
    \/ phase \in {"primary", "finished", "failed", "unbound"}
    \/ phase = "after_primary" /\ ~opts.continue_train

CkptChoices == {CkptNone, CkptEpoch} \cup {CkptInt(c) : c \in 1..MaxCkpt}

\* a process about to enter the primary loop of a run from scratch, lines 661-662
InitProcess ==
    /\ run = 1
    /\ pc = "batch"
    /\ epoch = 0
    /\ step = 0
    /\ starting_epoch = 0
    /\ resume_step = NoStep
    /\ completed_steps = 0
    /\ optimizer_steps = 0
    /\ scheduler_steps = 0
    /\ zero_grads = 0
    /\ pending = 0
    /\ checkpoints = {}
    /\ save_log = <<>>
    /\ trained = <<>>
    /\ skipped = {}
    /\ last = NoBatch
    /\ first_run = [completed_steps |-> 0, optimizer_steps |-> 0, trained |-> <<>>]
    /\ loaded = NoState

\* no worker processes: the single-process view
NoWorkers ==
    /\ env = [num_processes |-> 0, num_examples |-> 0, batch_size |-> 0,
              idx_column |-> "idx", do_recording |-> FALSE]
    /\ wpc = <<>>
    /\ wepoch = <<>>
    /\ wstep = <<>>
    /\ wcompleted = <<>>
    /\ woptimizer = <<>>
    /\ arrived = <<>>
    /\ order = <<>>
    /\ order_epoch = -1
    /\ all_ids = <<>>
    /\ training_dynamics = <<>>
    /\ dynamics_file = <<>>
    /\ writer = [epoch |-> 0, process |-> 0, records |-> <<>>]
    /\ written = <<>>

Init ==
    /\ len_train_dataloader \in 1..MaxBatches
    /\ \E k \in 1..MaxAccum, e \in 1..MaxEpochs,
          m \in {NoMax} \cup 1..MaxStepsArg, cps \in CkptChoices :
          args = Args(m, e, len_train_dataloader, k, cps, NoCheckpoint)
    /\ InitProcess
    /\ NoWorkers
    /\ opts = NoOptions
    /\ output_dir_model = NoModel
    /\ InitAfterLoop
    /\ NoCall

(* ------------------------------- actions ------------------------------- *)
\* one iteration of `for step, batch in enumerate(train_dataloader)`, lines 711-751
TrainBatch ==
    /\ pc = "batch"
    /\ LET n == len_train_dataloader
           k == args.gradient_accumulation_steps
           skip == SkipBatch(args.resume_from_checkpoint, epoch, starting_epoch,
                             step, resume_step)
           boundary == IsAccumulationBoundary(step, k, n)
           cs == IF skip THEN completed_steps + 1
                 ELSE CompletedAfterBatch(completed_steps, boundary)
           stepped == ~skip /\ boundary
           osteps == IF stepped THEN optimizer_steps + 1 ELSE optimizer_steps
           ssteps == IF stepped THEN scheduler_steps + 1 ELSE scheduler_steps
           save == ~skip /\ SavesStepCheckpoint(args.checkpointing_steps, cs)
           brk == ~skip /\ ReachedMax(cs, args.max_train_steps)
           exhausted == ~brk /\ step = n - 1
       IN
       /\ completed_steps' = cs
       /\ optimizer_steps' = osteps
       /\ scheduler_steps' = ssteps
       /\ zero_grads' = IF stepped THEN zero_grads + 1 ELSE zero_grads
       /\ pending' = IF skip THEN pending ELSE IF stepped THEN 0 ELSE pending + 1
       /\ checkpoints' = IF save THEN SaveState(checkpoints, StepName(cs), osteps, ssteps,
                                             Append(trained, <<epoch, step>>))
                         ELSE checkpoints
       /\ save_log' = IF save THEN Append(save_log, StepName(cs)) ELSE save_log
       /\ trained' = IF skip THEN trained ELSE Append(trained, <<epoch, step>>)
       /\ skipped' = IF skip THEN skipped \cup {<<epoch, step>>} ELSE skipped
       /\ last' = [kind |-> IF skip THEN "skipped" ELSE "trained",
                   epoch |-> epoch, step |-> step, stepped |-> stepped,
                   saved |-> save,
                   exit |-> IF brk THEN "break" ELSE IF exhausted THEN "exhausted" ELSE "none",
                   window |-> IF stepped THEN pending + 1 ELSE 0,
                   completed_before |-> completed_steps]
       /\ IF brk \/ exhausted
          THEN pc' = "epoch_end" /\ step' = step
          ELSE pc' = "batch" /\ step' = step + 1
    /\ UNCHANGED <<args, len_train_dataloader, run, epoch, starting_epoch,
                   resume_step, first_run, loaded, dynvars, contvars, fnvars>>

\* completed_steps is assigned 0 at line 661, before the epoch loop, and nowhere
\* in lines 752-842: the next iteration of the epoch loop starts with the value
\* the last one ended with
CompletedAtNextEpoch_Reset(c) == 0
CompletedAtNextEpoch(c) == c

\* the rest of the epoch's iteration, lines 752-842: recording, validation,
\* the epoch checkpoint, and the step of `for epoch in range(...)`
EndEpoch ==
    /\ pc = "epoch_end"
    /\ LET save == args.checkpointing_steps.kind = "epoch" IN
       /\ checkpoints' = IF save
                         THEN SaveState(checkpoints, EpochName(epoch),
                                        optimizer_steps, scheduler_steps, trained)
                         ELSE checkpoints
       /\ save_log' = IF save THEN Append(save_log, EpochName(epoch)) ELSE save_log
    /\ epoch' = epoch + 1
    /\ step' = 0
    /\ pc' = IF epoch + 1 < args.num_train_epochs THEN "batch" ELSE "done"
    /\ last' = NoBatch
    /\ recorded' = IF opts.do_recording THEN Append(recorded, epoch) ELSE recorded
    /\ completed_steps' = CompletedAtNextEpoch(completed_steps)
    /\ UNCHANGED <<args, len_train_dataloader, run, starting_epoch, resume_step,
                   optimizer_steps, scheduler_steps, zero_grads,
                   pending, trained, skipped, first_run, loaded, dynvars,
                   opts, phase, output_dir_model, model_orig, primary_end, final_saves,
                   cont_epoch, cont_step, cont_batches, continue_scheduler_steps,
                   fnvars>>

\* a new process started with --resume_from_checkpoint <c> and otherwise the
\* same command line, lines 661-683; c is any checkpoint the run from scratch
\* left on disk (a process interrupted after saving c resumes in the same way)
Resume ==
    /\ pc = "done"
    /\ run = 1
    /\ ProcessOver
    /\ \E c \in checkpoints :
         LET n == len_train_dataloader
             start == StartingEpoch(c.name, n)
         IN
         /\ args' = [args EXCEPT !.resume_from_checkpoint = c.name]
         /\ loaded' = c
         /\ starting_epoch' = start
         /\ resume_step' = ResumeStep(c.name, n)
         /\ optimizer_steps' = c.optimizer_steps
         /\ scheduler_steps' = c.scheduler_steps
         /\ epoch' = start
         /\ pc' = IF start < args.num_train_epochs THEN "batch" ELSE "done"
    /\ run' = 2
    /\ step' = 0
    /\ completed_steps' = 0
    /\ zero_grads' = 0
    /\ pending' = 0
    /\ save_log' = <<>>
    /\ trained' = <<>>
    /\ skipped' = {}
    /\ last' = NoBatch
    /\ first_run' = [completed_steps |-> completed_steps,
                     optimizer_steps |-> optimizer_steps,
                     trained |-> trained]
    /\ phase' = "primary"
    /\ model_orig' = NoModel
    /\ primary_end' = NoModel
    /\ final_saves' = 0
    /\ recorded' = <<>>
    /\ cont_epoch' = 0
    /\ cont_step' = 0
    /\ cont_batches' = 0
    /\ continue_scheduler_steps' = 0
    /\ UNCHANGED <<len_train_dataloader, checkpoints, dynvars, opts, output_dir_model,
                   fnvars>>

Next == TrainBatch \/ EndEpoch \/ Resume

Spec == Init /\ [][Next]_vars

(* --------------- the data-parallel run and the recording pass ---------- *)
\* worker processes are numbered from 0; accelerator.is_main_process
Processes == 0..env.num_processes - 1
IsMainProcess(w) == w = 0

\* the examples of train_dataset, by position
Examples == 0..env.num_examples - 1

\* the `idx` of an example: GLUE's own idx column is the position; for mnli the
\* column is overwritten with promptID (prompt_id_to_idx), which the examples
\* written for one prompt share
IdxOf(column, x) == IF column = "promptID" THEN x \div 2 ELSE x

\* the label of an example
LabelOf(x) == x % 2

\* the orders a shuffling dataloader can yield the examples in
Orders(d) == {f \in [1..d -> 0..d - 1] : \A i, j \in 1..d : f[i] = f[j] => i = j}

\* len(train_dataloader) after accelerator.prepare: batches each process iterates
BatchesPerProcess_DropLast(d, b, w) == (d \div b) \div w
BatchesPerProcess(d, b, w) == CeilDiv(CeilDiv(d, b), w)

\* the examples process w gets as its t-th batch: batch t * W + w of the order,
\* the batches after the last example being filled from the start of the order;
\* a single process gets the batches as they are, the last one possibly short
Shard(ord, w, t, W, b) ==
    LET d == Len(ord)
        first == (t * W + w) * b
        size == IF W = 1 THEN Min(b, d - first) ELSE b
    IN [i \in 1..size |-> ord[((first + i - 1) % d) + 1]]

\* accelerator.gather: the processes' batches, concatenated in process order
RECURSIVE GatherFrom(_, _, _, _, _)
GatherFrom(ord, w, t, W, b) ==
    IF w >= W THEN <<>>
    ELSE Shard(ord, w, t, W, b) \o GatherFrom(ord, w + 1, t, W, b)

Gather(ord, t, W, b) == GatherFrom(ord, 0, t, W, b)

\* line 785
Record(column, x, e, w) ==
    [guid |-> IdxOf(column, x), logits_epoch |-> e, gold |-> LabelOf(x), device |-> w]

\* the test left out: every gathered result is recorded
AlreadyRecorded_NoTest(idx, ids) == FALSE

\* line 782: `if idx in all_ids`
AlreadyRecorded(idx, ids) == \E i \in 1..Len(ids) : ids[i] = idx

\* lines 781-786: the loop over one gathered batch
RECURSIVE RecordGathered(_, _, _, _, _, _)
RecordGathered(gathered, ids, dyn, column, e, w) ==
    IF gathered = <<>> THEN [all_ids |-> ids, training_dynamics |-> dyn]
    ELSE LET x == Head(gathered)
             idx == IdxOf(column, x)
         IN IF AlreadyRecorded(idx, ids)
            THEN RecordGathered(Tail(gathered), ids, dyn, column, e, w)
            ELSE RecordGathered(Tail(gathered), Append(ids, idx),
                                Append(dyn, Record(column, x, e, w)), column, e, w)

\* the lines of a file as a bag: how many lines carry each <<guid, gold>>
LinesOf(records) ==
    LET keys == {<<records[i].guid, records[i].gold>> : i \in 1..Len(records)}
    IN [key \in keys |->
           Cardinality({i \in 1..Len(records) :
                           <<records[i].guid, records[i].gold>> = key})]

\* a collective that returns at once
CollectiveComplete_NoWait(w) == TRUE

\* a collective (wait_for_everyone, gather) returns in a process once every
\* process has entered it
CollectiveComplete(w) == \A v \in Processes : arrived[v] >= arrived[w]

\* the accumulation factors of the multi-process runs: without and with accumulation
DynAccums == {1, 2}

InitDyn ==
    /\ \E W \in 1..MaxProcesses, d \in 1..MaxExamples, b \in 1..MaxBatchSize,
          col \in {"idx", "promptID"}, rec \in BOOLEAN :
          /\ env = [num_processes |-> W, num_examples |-> d, batch_size |-> b,
                    idx_column |-> col, do_recording |-> rec]
          /\ len_train_dataloader = BatchesPerProcess(d, b, W)
    /\ \E k \in DynAccums, e \in 1..MaxDynEpochs :
          args = Args(NoMax, e, len_train_dataloader, k, CkptNone, NoCheckpoint)
    /\ InitProcess
    /\ wpc = [w \in Processes |-> "batch"]
    /\ wepoch = [w \in Processes |-> 0]
    /\ wstep = [w \in Processes |-> 0]
    /\ wcompleted = [w \in Processes |-> 0]
    /\ woptimizer = [w \in Processes |-> 0]
    /\ arrived = [w \in Processes |-> 0]
    /\ order = <<>>
    /\ order_epoch = -1
    /\ all_ids = [w \in Processes |-> <<>>]
    /\ training_dynamics = [w \in Processes |-> <<>>]
    /\ dynamics_file = [e \in 0..args.num_train_epochs - 1 |-> "absent"]
    /\ writer = [epoch |-> 0, process |-> 0, records |-> <<>>]
    /\ written = [e \in 0..args.num_train_epochs - 1 |-> <<>>]
    /\ opts = NoOptions
    /\ output_dir_model = NoModel
    /\ InitAfterLoop
    /\ NoCall

DynFrame == UNCHANGED <<args, len_train_dataloader, ctlvars, env, contvars, fnvars>>

\* one iteration of the batch loop in worker w, lines 711-751; the workers are
\* not held together here (the gradient all-reduce inside backward only adds
\* synchronisation)
\* the forward pass of the recording loop, line 771: model(**batch) with no
\* backward and no optimizer step leaves the parameters as they are
ParamsAfterForward_Trains(p) == p + 1
ParamsAfterForward(p) == p

\* lines 750-755: `break` leaves the batch loop only, and the recording pass
\* that follows the loop depends on args.do_recording alone
RunsRecording_NotAfterBreak(do_recording, brk) == do_recording /\ ~brk
RunsRecording(do_recording, brk) == do_recording

TrainBatchW(w) ==
    /\ wpc[w] = "batch"
    /\ LET n == len_train_dataloader
           boundary == IsAccumulationBoundary(wstep[w], args.gradient_accumulation_steps, n)
           cs == CompletedAfterBatch(wcompleted[w], boundary)
           brk == ReachedMax(cs, args.max_train_steps)
       IN
       /\ wcompleted' = [wcompleted EXCEPT ![w] = cs]
       /\ woptimizer' = [woptimizer EXCEPT ![w] =
                             IF boundary THEN woptimizer[w] + 1 ELSE woptimizer[w]]
       /\ IF brk \/ wstep[w] = n - 1
          THEN /\ wpc' = [wpc EXCEPT ![w] =
                             IF RunsRecording(env.do_recording, brk)
                             THEN "mkdir" ELSE "eval"]
               /\ wstep' = [wstep EXCEPT ![w] = 0]
          ELSE /\ wpc' = wpc
               /\ wstep' = [wstep EXCEPT ![w] = wstep[w] + 1]
    /\ UNCHANGED <<wepoch, arrived, order, order_epoch, all_ids, training_dynamics,
                   dynamics_file, writer, written>>
    /\ DynFrame

\* lines 756-759: the main process creates the directory; every process enters
\* wait_for_everyone
EnterBarrier(w) ==
    /\ wpc[w] \in {"mkdir", "written"}
    /\ arrived' = [arrived EXCEPT ![w] = arrived[w] + 1]
    /\ wpc' = [wpc EXCEPT ![w] = IF wpc[w] = "mkdir" THEN "wait_dir" ELSE "wait_written"]
    /\ UNCHANGED <<wepoch, wstep, wcompleted, woptimizer, order, order_epoch, all_ids,
                   training_dynamics, dynamics_file, writer, written>>
    /\ DynFrame

\* lines 759-777: wait_for_everyone returns; the recording pass starts with empty
\* lists and a fresh iteration of train_dataloader (shuffle=True, the processes'
\* samplers seeded alike); the process runs the forward pass over its first
\* batch and enters gather
StartRecording(w) ==
    /\ wpc[w] = "wait_dir"
    /\ CollectiveComplete(w)
    /\ IF order_epoch = wepoch[w]
       THEN UNCHANGED <<order, order_epoch>>
       ELSE /\ order' \in Orders(env.num_examples)
            /\ order_epoch' = wepoch[w]
    /\ all_ids' = [all_ids EXCEPT ![w] = <<>>]
    /\ training_dynamics' = [training_dynamics EXCEPT ![w] = <<>>]
    /\ wstep' = [wstep EXCEPT ![w] = 0]
    /\ arrived' = [arrived EXCEPT ![w] = arrived[w] + 1]
    /\ wpc' = [wpc EXCEPT ![w] = "gather"]
    /\ woptimizer' = [woptimizer EXCEPT ![w] = ParamsAfterForward(woptimizer[w])]
    /\ UNCHANGED <<wepoch, wcompleted, dynamics_file, writer, written>>
    /\ DynFrame

\* line 766: the batches process w iterates in the recording loop; the prepared
\* dataloader pads the last batches, so every process iterates as many
RecordingBatches_Uneven(w) ==
    IF IsMainProcess(w) THEN len_train_dataloader ELSE Min(len_train_dataloader, 1)
RecordingBatches(w) == len_train_dataloader

\* lines 766-786: gather returns and the gathered results are added to the lists;
\* if the dataloader has another batch, the forward pass over it and the next gather
AfterGather(w) ==
    /\ wpc[w] = "gather"
    /\ CollectiveComplete(w)
    /\ LET gathered == Gather(order, wstep[w], env.num_processes, env.batch_size)
           r == RecordGathered(gathered, all_ids[w], training_dynamics[w],
                               env.idx_column, wepoch[w], w)
       IN /\ all_ids' = [all_ids EXCEPT ![w] = r.all_ids]
          /\ training_dynamics' = [training_dynamics EXCEPT ![w] = r.training_dynamics]
    /\ IF wstep[w] = RecordingBatches(w) - 1
       THEN /\ wpc' = [wpc EXCEPT ![w] = IF IsMainProcess(w) THEN "write" ELSE "written"]
            /\ wstep' = wstep
            /\ arrived' = arrived
       ELSE /\ wpc' = wpc
            /\ wstep' = [wstep EXCEPT ![w] = wstep[w] + 1]
            /\ arrived' = [arrived EXCEPT ![w] = arrived[w] + 1]
    /\ woptimizer' = [woptimizer EXCEPT ![w] = ParamsAfterForward(woptimizer[w])]
    /\ UNCHANGED <<wepoch, wcompleted, order, order_epoch, dynamics_file, writer, written>>
    /\ DynFrame

\* lines 788-794: the file is opened for writing and the records are written
WriteDynamics(w) ==
    /\ wpc[w] = "write"
    /\ dynamics_file' = [dynamics_file EXCEPT ![wepoch[w]] = "open"]
    /\ writer' = [epoch |-> wepoch[w], process |-> w, records |-> training_dynamics[w]]
    /\ wpc' = [wpc EXCEPT ![w] = "close"]
    /\ UNCHANGED <<wepoch, wstep, wcompleted, woptimizer, arrived, order, order_epoch, all_ids,
                   training_dynamics, written>>
    /\ DynFrame

\* line 796: writer.close()
CloseDynamics(w) ==
    /\ wpc[w] = "close"
    /\ dynamics_file' = [dynamics_file EXCEPT ![wepoch[w]] = "closed"]
    /\ written' = [written EXCEPT ![wepoch[w]] = LinesOf(writer.records)]
    /\ writer' = [writer EXCEPT !.records = <<>>]
    /\ wpc' = [wpc EXCEPT ![w] = "written"]
    /\ UNCHANGED <<wepoch, wstep, wcompleted, woptimizer, arrived, order, order_epoch, all_ids,
                   training_dynamics>>
    /\ DynFrame

\* line 797: wait_for_everyone returns
LeaveBarrier(w) ==
    /\ wpc[w] = "wait_written"
    /\ CollectiveComplete(w)
    /\ wpc' = [wpc EXCEPT ![w] = "eval"]
    /\ order' = <<>>
    /\ all_ids' = [all_ids EXCEPT ![w] = <<>>]
    /\ training_dynamics' = [training_dynamics EXCEPT ![w] = <<>>]
    /\ UNCHANGED <<wepoch, wstep, wcompleted, woptimizer, arrived, order_epoch,
                   dynamics_file, writer, written>>
    /\ DynFrame

\* lines 802-842: validation, then the next iteration of the epoch loop; the
\* gathers of the validation loop come after line 797 and are not told apart here
EvaluateW(w) ==
    /\ wpc[w] = "eval"
    /\ wepoch' = [wepoch EXCEPT ![w] = wepoch[w] + 1]
    /\ wstep' = [wstep EXCEPT ![w] = 0]
    /\ wpc' = [wpc EXCEPT ![w] =
                  IF wepoch[w] + 1 < args.num_train_epochs THEN "batch" ELSE "done"]
    /\ UNCHANGED <<wcompleted, woptimizer, arrived, order, order_epoch, all_ids,
                   training_dynamics, dynamics_file, writer, written>>
    /\ DynFrame

WorkerTrains == \E w \in Processes : TrainBatchW(w)
WorkerEntersBarrier == \E w \in Processes : EnterBarrier(w)
WorkerStartsRecording == \E w \in Processes : StartRecording(w)
WorkerGathers == \E w \in Processes : AfterGather(w)
WorkerWrites == \E w \in Processes : WriteDynamics(w)
WorkerCloses == \E w \in Processes : CloseDynamics(w)
WorkerLeavesBarrier == \E w \in Processes : LeaveBarrier(w)
WorkerEvaluates == \E w \in Processes : EvaluateW(w)

NextDyn ==
    \/ WorkerTrains
    \/ WorkerEntersBarrier
    \/ WorkerStartsRecording
    \/ WorkerGathers
    \/ WorkerWrites
    \/ WorkerCloses
    \/ WorkerLeavesBarrier
    \/ WorkerEvaluates

SpecDyn == InitDyn /\ [][NextDyn]_vars

\* the steps of one process
WorkerStep(w) ==
    /\ w \in Processes
    /\ \/ TrainBatchW(w)
       \/ EnterBarrier(w)
       \/ StartRecording(w)
       \/ AfterGather(w)
       \/ WriteDynamics(w)
       \/ CloseDynamics(w)
       \/ LeaveBarrier(w)
       \/ EvaluateW(w)

\* every process is an operating-system process of its own (accelerate launch):
\* one that can take a step is not held back forever
SpecDynFair ==
    /\ InitDyn
    /\ [][NextDyn]_vars
    /\ \A w \in 0..MaxProcesses - 1 : WF_vars(WorkerStep(w))

(* ------------- after the primary loop: final save, continuation -------- *)
\* largest len(train_dataloader) of the runs followed past the primary loop
MaxContBatches == 3
\* largest --continue_num_train_epochs
MaxContEpochs == 2

\* The parameters of a model are identified by the number of optimizer.step()
\* calls that produced them from the pretrained weights (optimizer_steps for
\* the active model): equal counts are taken to be equal parameters, and with
\* a learning rate that stays positive (--lr_scheduler_type constant) every
\* further step gives different parameters.

\* lines 846-852: the final weights and tokenizer are written by this process
WritesFinalModel_OnResume(output_dir, resume, is_main) == output_dir /\ is_main
WritesFinalModel(output_dir, resume, is_main) ==
    output_dir /\ resume = NoCheckpoint /\ is_main

\* lines 718-725: idx2weight[int(idx)] raises before model(**batch) is called,
\* so the batch is not among the trained ones
TrainedAfterKeyError_ForwardFirst(tr, e, s) == Append(tr, <<e, s>>)
TrainedAfterKeyError(tr, e, s) == tr

\* lines 939-941, 1009-1010: model_orig is a model of its own, loaded from
\* args.output_dir, and the optimizer was built over the parameters of `model`
\* only: optimizer.step() leaves model_orig's parameters as they are
FrozenAfterStep_Shared(orig, active) == active
FrozenAfterStep(orig, active) == orig

\* lines 1008-1011: optimizer.step(), continue_lr_scheduler.step() and
\* optimizer.zero_grad() follow every backward of the continuation loop, with
\* no test of step or gradient_accumulation_steps
ContinueStepsOptimizer_Accumulating(s, k, n) == IsAccumulationBoundary(s, k, n)
ContinueStepsOptimizer(s, k, n) == TRUE

\* values of --checkpointing_steps of the runs followed past the primary loop
ContCkpts == {CkptNone, CkptEpoch, CkptInt(1)}

ContOptions ==
    {o \in [output_dir : BOOLEAN, do_recording : BOOLEAN, continue_train : BOOLEAN,
            do_lwf : BOOLEAN, continue_num_train_epochs : 1..MaxContEpochs,
            train_with_sample_loss : BOOLEAN,
            continue_train_with_sample_loss : BOOLEAN, is_main_process : BOOLEAN] :
        ~o.continue_train => /\ ~o.do_lwf
                             /\ o.continue_num_train_epochs = 1
                             /\ ~o.continue_train_with_sample_loss}

InitCont ==
    /\ len_train_dataloader \in 1..MaxContBatches
    /\ \E k \in DynAccums, e \in 1..MaxDynEpochs, cps \in ContCkpts :
          args = Args(NoMax, e, len_train_dataloader, k, cps, NoCheckpoint)
    /\ InitProcess
    /\ NoWorkers
    /\ opts \in ContOptions
    /\ output_dir_model = NoModel
    /\ InitAfterLoop
    /\ NoCall

\* an iteration of the batch loop whose weight lookup raises KeyError, lines
\* 718-725: some idx of the batch is not a key of idx2weight (TrainBatch is the
\* iteration in which every idx of the batch is found)
TrainBatchKeyError ==
    /\ pc = "batch"
    /\ opts.train_with_sample_loss
    /\ ~SkipBatch(args.resume_from_checkpoint, epoch, starting_epoch, step, resume_step)
    /\ pc' = "aborted"
    /\ trained' = TrainedAfterKeyError(trained, epoch, step)
    /\ last' = [NoBatch EXCEPT !.kind = "KeyError", !.epoch = epoch, !.step = step,
                               !.completed_before = completed_steps]
    /\ UNCHANGED <<args, len_train_dataloader, run, epoch, step, starting_epoch,
                   resume_step, completed_steps, optimizer_steps, scheduler_steps,
                   zero_grads, pending, checkpoints, save_log, skipped, first_run,
                   loaded, dynvars, contvars, fnvars>>

\* lines 846-852, after the primary loop. A process that is not the main one
\* goes on without waiting for the main process's save_pretrained: what it then
\* finds in args.output_dir is the main process's model or what was there before
FinalSave ==
    /\ pc = "done"
    /\ phase = "primary"
    /\ LET writes == WritesFinalModel(opts.output_dir, args.resume_from_checkpoint,
                                      opts.is_main_process)
           main_writes == WritesFinalModel(opts.output_dir, args.resume_from_checkpoint,
                                           TRUE)
       IN
       /\ final_saves' = IF writes THEN final_saves + 1 ELSE final_saves
       /\ output_dir_model' \in
              IF writes THEN {optimizer_steps}
              ELSE IF main_writes THEN {output_dir_model, optimizer_steps}
              ELSE {output_dir_model}
    /\ primary_end' = optimizer_steps
    /\ phase' = "after_primary"
    /\ UNCHANGED <<args, len_train_dataloader, ctlvars, dynvars, opts, model_orig,
                   recorded, cont_epoch, cont_step, cont_batches,
                   continue_scheduler_steps, fnvars>>

\* lines 937-969: `if args.continue_train:` up to the continuation loop.
\* from_pretrained(args.output_dir) raises when no model was saved there
StartContinuation ==
    /\ phase = "after_primary"
    /\ opts.continue_train
    /\ IF opts.do_lwf /\ output_dir_model = NoModel
       THEN /\ phase' = "failed"
            /\ UNCHANGED model_orig
       ELSE /\ phase' = "continue"
            /\ model_orig' = IF opts.do_lwf THEN output_dir_model ELSE model_orig
    /\ cont_epoch' = 0
    /\ cont_step' = 0
    /\ continue_scheduler_steps' = 0
    /\ UNCHANGED <<args, len_train_dataloader, ctlvars, dynvars, opts,
                   output_dir_model, primary_end, final_saves, recorded, cont_batches,
                   fnvars>>

\* idx2weight, a local of main, is bound at line 720 only: in an iteration of
\* the primary batch loop that is not skipped, under --train_with_sample_loss
Idx2WeightBound == opts.train_with_sample_loss /\ trained # <<>>

\* line 977 reads idx2weight
ContinueLookupUnbound == opts.continue_train_with_sample_loss /\ ~Idx2WeightBound

\* the first continuation batch when idx2weight is not bound: line 977 raises
\* UnboundLocalError and the process ends
ContinueBatchUnbound ==
    /\ phase = "continue"
    /\ ContinueLookupUnbound
    /\ phase' = "unbound"
    /\ UNCHANGED <<args, len_train_dataloader, ctlvars, dynvars, opts,
                   output_dir_model, model_orig, primary_end, final_saves, recorded,
                   cont_epoch, cont_step, cont_batches, continue_scheduler_steps,
                   fnvars>>

\* one iteration of `for step, batch in enumerate(selected_train_dataloader)`,
\* lines 975-1012; selected_train_dataset is train_dataset, batched alike
ContinueBatch ==
    /\ phase = "continue"
    /\ ~ContinueLookupUnbound
    /\ LET n == len_train_dataloader
           stepped == ContinueStepsOptimizer(cont_step, args.gradient_accumulation_steps, n)
           osteps == IF stepped THEN optimizer_steps + 1 ELSE optimizer_steps
       IN
       /\ optimizer_steps' = osteps
       /\ continue_scheduler_steps' =
              IF stepped THEN continue_scheduler_steps + 1 ELSE continue_scheduler_steps
       /\ zero_grads' = IF stepped THEN zero_grads + 1 ELSE zero_grads
       /\ model_orig' = IF opts.do_lwf THEN FrozenAfterStep(model_orig, osteps)
                        ELSE model_orig
       /\ IF cont_step = n - 1
          THEN phase' = "continue_eval" /\ cont_step' = cont_step
          ELSE phase' = "continue" /\ cont_step' = cont_step + 1
    /\ cont_batches' = cont_batches + 1
    /\ UNCHANGED <<args, len_train_dataloader, run, pc, epoch, step, starting_epoch,
                   resume_step, completed_steps, scheduler_steps, pending, checkpoints,
                   save_log, trained, skipped, last, first_run, loaded, dynvars, opts,
                   output_dir_model, primary_end, final_saves, recorded, cont_epoch,
                   fnvars>>

\* the rest of a continuation epoch, lines 1014-1038: validation only, then
\* the step of `for epoch in range(args.continue_num_train_epochs)`
ContinueEndEpoch ==
    /\ phase = "continue_eval"
    /\ cont_epoch' = cont_epoch + 1
    /\ cont_step' = 0
    /\ phase' = IF cont_epoch + 1 < opts.continue_num_train_epochs
                THEN "continue" ELSE "finished"
    /\ UNCHANGED <<args, len_train_dataloader, ctlvars, dynvars, opts,
                   output_dir_model, model_orig, primary_end, final_saves, recorded,
                   cont_batches, continue_scheduler_steps, fnvars>>

NextCont ==
    \/ TrainBatch
    \/ TrainBatchKeyError
    \/ EndEpoch
    \/ FinalSave
    \/ StartContinuation
    \/ ContinueBatch
    \/ ContinueBatchUnbound
    \/ ContinueEndEpoch
    \/ Resume

SpecCont == InitCont /\ [][NextCont]_vars

(* ------------- functions: argument checks and the loss values ---------- *)
\* largest per-example loss and largest sample weight (whole numbers stand for
\* the floating-point values), largest task loss of a continuation batch
MaxLoss == 2
MaxWeight == 2
\* class distributions are identified by a number in 1..MaxDist
MaxDist == 3

\* exact fractions, for the divisions of the loss computations
Frac(n, d) == [num |-> n, den |-> d]
FracEq(a, b) == a.num * b.den = b.num * a.den
FracAdd(a, b) == Frac(a.num * b.den + b.num * a.den, a.den * b.den)
FracMul(a, b) == Frac(a.num * b.num, a.den * b.den)

RECURSIVE SumSeq(_)
SumSeq(q) == IF q = <<>> THEN 0 ELSE Head(q) + SumSeq(Tail(q))

\* losses * weights, elementwise (line 699)
RECURSIVE Products(_, _)
Products(losses, weights) ==
    IF losses = <<>> THEN <<>>
    ELSE <<Head(losses) * Head(weights)>> \o Products(Tail(losses), Tail(weights))

\* tensor.mean()
Mean(q) == Frac(SumSeq(q), Len(q))

\* loss_fct_with_sample_weights, lines 693-699, from the per-example losses
\* my_loss_fct returns (reduction="none") and the weights looked up for the batch
LossFctWithSampleWeights_Sum(losses, weights) == Frac(SumSeq(Products(losses, weights)), 1)
LossFctWithSampleWeights(losses, weights) == Mean(Products(losses, weights))

\* lines 1000-1001
Temperature == 1
Alpha == Frac(5, 10)

\* kld_loss_fct(log_softmax(new_logits / T), softmax(orig_logits / T)), lines
\* 1002-1005, on the two class distributions: zero when they are the same
\* distribution, positive otherwise (the squared distance stands for the
\* positive value)
KLDivLoss(new, orig) == Frac((new - orig) * (new - orig), 1)

\* the loss handed to accelerator.backward in the continuation loop, lines
\* 986-1009: the task loss is divided by gradient_accumulation_steps first,
\* then, with --do_lwf, alpha * distil_loss is added
ContinuationLoss(task_loss, k, do_lwf, new, orig) ==
    LET loss == Frac(task_loss, k)
        distil_loss == FracMul(KLDivLoss(new, orig), Frac(Temperature * Temperature, 1))
    IN IF do_lwf THEN FracAdd(FracMul(Alpha, distil_loss), loss) ELSE loss

\* an argument left at its default None
NoneArg == <<>>

\* file names, as the list name.split(".") of their parts
FileNames == {<<"train", "csv">>, <<"train", "json">>, <<"train", "tsv">>,
              <<"train", "csv", "gz">>, <<"dev", "v2", "json">>, <<"train">>, <<"csv">>}

\* name.split(".")[-1]
Extension(name) == name[Len(name)]

\* the sanity checks of parse_args, lines 215-229: what it raises, or "args"
\* when it returns
ParseArgs_TrainFileOnly(task_name, train_file, validation_file) ==
    IF task_name = NoneArg /\ train_file = NoneArg /\ validation_file = NoneArg
    THEN "ValueError"
    ELSE IF train_file # NoneArg /\ Extension(train_file) \notin {"csv", "json"}
    THEN "AssertionError"
    ELSE "args"
ParseArgs(task_name, train_file, validation_file) ==
    IF task_name = NoneArg /\ train_file = NoneArg /\ validation_file = NoneArg
    THEN "ValueError"
    ELSE IF train_file # NoneArg /\ Extension(train_file) \notin {"csv", "json"}
    THEN "AssertionError"
    ELSE IF validation_file # NoneArg /\ Extension(validation_file) \notin {"csv", "json"}
    THEN "AssertionError"
    ELSE "args"

\* the evaluation loops of main: the validation pass of every epoch (lines
\* 802-819 and 1016-1033) and the passes after training (lines 864-932, 1045-1091)
EvalPasses == {"validation", "extra"}

\* eval_dataloader is built without shuffle (line 571, lines 867-869): the
\* examples in dataset order
DatasetOrder(d) == [i \in 1..d |-> i - 1]

\* seq[:x]
SlicePrefix(seq, x) ==
    IF x >= 0 THEN SubSeq(seq, 1, Min(Len(seq), x))
    ELSE SubSeq(seq, 1, IF Len(seq) + x > 0 THEN Len(seq) + x ELSE 0)

\* what one iteration hands to metric.add_batch. Lines 811-816: with several
\* processes the validation pass cuts the last gathered batch down to the
\* examples not seen yet; the passes after training (lines 877-880) add the
\* gathered batch as it is
AddedToMetric_Uncut(pass, gathered, W, t, n, d, samples_seen) == gathered
AddedToMetric(pass, gathered, W, t, n, d, samples_seen) ==
    IF pass = "validation" /\ W > 1 /\ t = n - 1
    THEN SlicePrefix(gathered, d - samples_seen)
    ELSE gathered

\* lines 811-816: samples_seen after the iteration
SamplesSeenAfter(pass, gathered, W, t, n, samples_seen) ==
    IF pass = "validation" /\ W > 1 /\ t # n - 1
    THEN samples_seen + Len(gathered)
    ELSE samples_seen

\* sequences of 1..MaxBatchSize values of 0..m
Batches(m) == UNION {[1..b -> 0..m] : b \in 1..MaxBatchSize}

Calls ==
    {[fn |-> "loss_fct_with_sample_weights", losses |-> l, weights |-> w] :
        <<l, w>> \in {x \in Batches(MaxLoss) \X Batches(MaxWeight) : Len(x[1]) = Len(x[2])}}
    \cup {[fn |-> "continuation_loss", task_loss |-> t, gradient_accumulation_steps |-> k,
            do_lwf |-> d, new |-> p, orig |-> q] :
            t \in 0..MaxLoss, k \in 1..MaxAccum, d \in BOOLEAN,
            p \in 1..MaxDist, q \in 1..MaxDist}
    \cup {[fn |-> "parse_args", task_name |-> t, train_file |-> f, validation_file |-> v] :
            t \in {NoneArg, <<"mnli">>}, f \in FileNames \cup {NoneArg},
            v \in FileNames \cup {NoneArg}}
    \cup {[fn |-> "evaluation", pass |-> p, num_processes |-> W, num_examples |-> d,
            batch_size |-> b] :
            p \in EvalPasses, W \in 1..MaxProcesses, d \in 1..MaxExamples,
            b \in 1..MaxBatchSize}

\* one call, not made yet; the variables of main's loop play no part
InitFn ==
    /\ len_train_dataloader = 1
    /\ args = Args(NoMax, 1, 1, 1, CkptNone, NoCheckpoint)
    /\ InitProcess
    /\ NoWorkers
    /\ opts = NoOptions
    /\ output_dir_model = NoModel
    /\ InitAfterLoop
    /\ call \in Calls
    /\ result = [status |-> "pending", value |-> "none"]
    /\ raw_datasets = "unloaded"

FnFrame == UNCHANGED <<args, len_train_dataloader, ctlvars, dynvars, contvars, call>>

\* loss = loss_fct_with_sample_weights(outputs.logits, batch['labels'], sample_weights)
CallLossFctWithSampleWeights ==
    /\ call.fn = "loss_fct_with_sample_weights"
    /\ result.status = "pending"
    /\ result' = [status |-> "returned",
                  value |-> LossFctWithSampleWeights(call.losses, call.weights)]
    /\ UNCHANGED raw_datasets
    /\ FnFrame

\* the loss computation of one continuation batch
ComputeContinuationLoss ==
    /\ call.fn = "continuation_loss"
    /\ result.status = "pending"
    /\ result' = [status |-> "returned",
                  value |-> ContinuationLoss(call.task_loss, call.gradient_accumulation_steps,
                                            call.do_lwf, call.new, call.orig)]
    /\ UNCHANGED raw_datasets
    /\ FnFrame

\* args = parse_args(), the first statement of main
CallParseArgs ==
    /\ call.fn = "parse_args"
    /\ result.status = "pending"
    /\ LET r == ParseArgs(call.task_name, call.train_file, call.validation_file) IN
         result' = [status |-> IF r = "args" THEN "returned" ELSE "raised", value |-> r]
    /\ UNCHANGED raw_datasets
    /\ FnFrame

\* main goes on after parse_args has returned, up to the loading of the
\* datasets (lines 293-321); an exception raised by parse_args ends the process
LoadDatasets ==
    /\ call.fn = "parse_args"
    /\ result.status = "returned"
    /\ raw_datasets = "unloaded"
    /\ raw_datasets' = "loaded"
    /\ UNCHANGED result
    /\ FnFrame

\* one iteration of `for step, batch in enumerate(eval_dataloader)`: the forward
\* pass, the gather of predictions and labels, and metric.add_batch; `added`
\* lists the examples whose (prediction, reference) pair the metric was given
EvalBatch ==
    /\ call.fn = "evaluation"
    /\ result.status \in {"pending", "running"}
    /\ LET W == call.num_processes
           d == call.num_examples
           b == call.batch_size
           n == BatchesPerProcess(d, b, W)
           cur == IF result.status = "pending"
                  THEN [step |-> 0, samples_seen |-> 0, added |-> <<>>]
                  ELSE result.value
           gathered == Gather(DatasetOrder(d), cur.step, W, b)
           nxt == [step |-> cur.step + 1,
                   samples_seen |-> SamplesSeenAfter(call.pass, gathered, W, cur.step, n,
                                                     cur.samples_seen),
                   added |-> cur.added \o AddedToMetric(call.pass, gathered, W, cur.step,
                                                        n, d, cur.samples_seen)]
       IN result' = [status |-> IF cur.step = n - 1 THEN "returned" ELSE "running",
                     value |-> nxt]
    /\ UNCHANGED raw_datasets
    /\ FnFrame

NextFn ==
    \/ CallLossFctWithSampleWeights
    \/ ComputeContinuationLoss
    \/ CallParseArgs
    \/ LoadDatasets
    \/ EvalBatch

SpecFn == InitFn /\ [][NextFn]_vars

(* ------------------------------ the claims ----------------------------- *)
\* the batches of a sequence of <<epoch, step>>
Range(seq) == {seq[i] : i \in 1..Len(seq)}

ResumedFromStep == run = 2 /\ args.resume_from_checkpoint.kind = "step"
ResumedFromEpoch == run = 2 /\ args.resume_from_checkpoint.kind = "epoch"

\* C1: with recording enabled and distinct idx values, the file written for an
\* epoch holds exactly one record per training example, whatever the number of
\* workers and the padding of the last gathered batch, and every epoch the
\* main process has gone through has its file.
C1_OneRecordPerExample ==
    (env.do_recording /\ env.idx_column = "idx") =>
        /\ \A e \in DOMAIN dynamics_file :
              dynamics_file[e] = "closed" =>
                  /\ DOMAIN written[e] = {<<IdxOf("idx", x), LabelOf(x)>> : x \in Examples}
                  /\ \A key \in DOMAIN written[e] : written[e][key] = 1
        /\ dynamics_file[writer.epoch] = "open" =>
              /\ \A x \in Examples :
                    Cardinality({i \in 1..Len(writer.records) :
                                    writer.records[i].guid = IdxOf("idx", x)}) = 1
              /\ Len(writer.records) = env.num_examples
              /\ \A i \in 1..Len(writer.records) :
                    writer.records[i].logits_epoch = writer.epoch
        /\ \A w \in Processes : \A e \in DOMAIN dynamics_file :
              (IsMainProcess(w) /\ wepoch[w] > e) => dynamics_file[e] = "closed"

\* two workers, three examples, batches of two: the second worker's batch is
\* filled with a repeated example and the file still holds three lines
C1_Witness ==
    /\ env.do_recording
    /\ env.idx_column = "idx"
    /\ env.num_processes = 2
    /\ env.num_examples = 3
    /\ env.batch_size = 2
    /\ dynamics_file[0] = "closed"
    /\ wpc[0] = "written"
    /\ wepoch[0] = 0
    /\ Len(Gather(order, 0, 2, 2)) = 4
    /\ Len(training_dynamics[0]) = 3
    /\ Cardinality(DOMAIN written[0]) = 3

\* C6: only the main process writes a dynamics file, and no worker is in the
\* batch loop of epoch E + 1 before the file of epoch E has been written and closed.
C6_WriterFinishedBeforeNextEpoch ==
    env.do_recording =>
        /\ writer.process = 0
        /\ \A w \in Processes :
              /\ wpc[w] \in {"write", "close"} => w = 0
              /\ (wpc[w] = "batch" /\ wepoch[w] >= 1) =>
                    dynamics_file[wepoch[w] - 1] = "closed"

C6_Witness ==
    /\ env.do_recording
    /\ env.num_processes >= 2
    /\ \E w \in Processes :
          /\ w # 0
          /\ wepoch[w] = 1
          /\ wpc[w] = "batch"
          /\ wstep[w] >= 1
          /\ dynamics_file[0] = "closed"
          /\ wepoch[0] = 0

\* C2: a run resumed from step_S and run to completion ends with the same
\* completed_steps and the same total number of optimizer updates as the
\* uninterrupted run of the same configuration.
C2_ResumeIdempotent ==
    (ResumedFromStep /\ pc = "done") =>
        /\ completed_steps = first_run.completed_steps
        /\ optimizer_steps = first_run.optimizer_steps

\* C3: a run from scratch ends the primary loop with
\* completed_steps = min(ceil(n / k) * E, M), E the effective number of epochs.
C3_FinalCompletedSteps ==
    (run = 1 /\ pc = "done") =>
        completed_steps =
            Min(CeilDiv(len_train_dataloader, args.gradient_accumulation_steps)
                    * args.num_train_epochs,
                args.max_train_steps)

\* C4: once completed_steps has reached max_train_steps no further batch is
\* trained, in this epoch or a later one, and completed_steps never exceeds
\* max_train_steps.
C4_StopsAtMax ==
    /\ completed_steps <= args.max_train_steps
    /\ last.kind = "trained" => last.completed_before < args.max_train_steps

\* C5: with an integer checkpoint interval C a step checkpoint is saved exactly
\* when completed_steps has just reached a multiple of C (the batch took an
\* optimizer step), under the name step_<completed_steps>.
C5_SavedIffJustReachedMultiple ==
    (args.checkpointing_steps.kind = "int" /\ last.kind = "trained") =>
        /\ last.saved <=>
              (last.stepped /\ completed_steps % args.checkpointing_steps.n = 0)
        /\ last.saved => save_log[Len(save_log)] = StepName(completed_steps)

\* C7 as stated: completed_steps changes only with an optimizer step, by exactly
\* 1 for each, on every batch of the primary loop.
C7_OnlyAtBoundary ==
    [][run' = run =>
          completed_steps' - completed_steps = optimizer_steps' - optimizer_steps]_vars

\* C7 amended: on a trained batch completed_steps changes only with an optimizer
\* step and by exactly 1; a batch skipped by the step-resume skip-ahead adds 1
\* to completed_steps without an optimizer step.
C7_OnlyAtBoundaryOrSkip ==
    [][run' = run =>
          IF skipped' # skipped
          THEN /\ completed_steps' = completed_steps + 1
               /\ optimizer_steps' = optimizer_steps
          ELSE /\ completed_steps' - completed_steps = optimizer_steps' - optimizer_steps
               /\ optimizer_steps' - optimizer_steps \in {0, 1}
               /\ trained' = trained => completed_steps' = completed_steps]_vars

C7_Witness ==
    /\ run = 2
    /\ skipped # {}
    /\ last.kind = "trained"
    /\ ~last.stepped
    /\ completed_steps = last.completed_before

\* C8: a trained batch s takes the optimizer step, the scheduler step and the
\* gradient zeroing exactly when s mod k = 0 or s = n - 1, all three together,
\* and when the batch stream of an epoch is exhausted no gradient is pending.
C8_BoundaryRule ==
    [][run' = run =>
          /\ optimizer_steps' - optimizer_steps = scheduler_steps' - scheduler_steps
          /\ optimizer_steps' - optimizer_steps = zero_grads' - zero_grads
          /\ trained' # trained =>
                (optimizer_steps' = optimizer_steps + 1 <=>
                    (step % args.gradient_accumulation_steps = 0
                        \/ step = len_train_dataloader - 1))
          /\ last'.exit = "exhausted" => pending' = 0]_vars

C8_Witness ==
    /\ last.exit = "exhausted"
    /\ last.stepped
    /\ last.step % args.gradient_accumulation_steps # 0
    /\ last.window >= 2
    /\ pending = 0

\* C9: resuming from step_R gives starting_epoch = R div n and residual
\* r = R mod n; exactly the batches of epoch starting_epoch with index < r are
\* skipped, none is trained, each adds 1 to completed_steps and nothing else;
\* no batch of a later epoch is skipped.
C9_StepResumeSkips ==
    ResumedFromStep =>
        LET R == args.resume_from_checkpoint.n
            n == len_train_dataloader
            toSkip == {<<R \div n, s>> : s \in 0..(R % n) - 1}
        IN
        /\ starting_epoch = R \div n
        /\ resume_step = R % n
        /\ skipped \subseteq toSkip
        /\ skipped \cap Range(trained) = {}
        /\ (trained # <<>> \/ epoch > starting_epoch \/ pc = "done") => skipped = toSkip
        /\ completed_steps =
              Cardinality(skipped) + (optimizer_steps - loaded.optimizer_steps)
        /\ last.kind = "skipped" =>
              pending = 0 /\ optimizer_steps = loaded.optimizer_steps

C9_Witness ==
    /\ ResumedFromStep
    /\ resume_step >= 2
    /\ Cardinality(skipped) = resume_step
    /\ epoch > starting_epoch
    /\ last.kind = "trained"

\* C10: resuming from epoch_N starts the loop at epoch N + 1, batch 0, and no
\* batch is skipped in that epoch or a later one.
C10_EpochResumeStartsClean ==
    ResumedFromEpoch =>
        LET N == args.resume_from_checkpoint.n IN
        /\ starting_epoch = N + 1
        /\ epoch >= N + 1
        /\ skipped = {}
        /\ trained # <<>> => trained[1] = <<N + 1, 0>>
        /\ last.kind # "skipped"

C10_Witness ==
    /\ ResumedFromEpoch
    /\ Len(trained) > len_train_dataloader
    /\ epoch > starting_epoch

\* C11: with --checkpointing_steps epoch, the checkpoint epoch_<e> is saved
\* exactly when the process leaves epoch e: the step that moves `epoch` from e
\* to e + 1 saves epoch_<e> and nothing else and trains no batch, no step inside
\* an epoch saves anything, and every batch trained is a batch of the current
\* epoch; so epoch_<e> is saved once, after all the batches of epoch e and
\* before any batch of epoch e + 1, with and without --do_recording.
C11_EpochCheckpointAtEpochEnd ==
    [][(args.checkpointing_steps.kind = "epoch" /\ run' = run) =>
         /\ epoch' \in {epoch, epoch + 1}
         /\ epoch' = epoch + 1 =>
               /\ save_log' = Append(save_log, [kind |-> "epoch", n |-> epoch])
               /\ trained' = trained
               /\ \A c \in checkpoints' :
                     c.name = [kind |-> "epoch", n |-> epoch] =>
                         c.optimizer_steps = optimizer_steps
         /\ epoch' = epoch => save_log' = save_log
         /\ trained' # trained => trained' = Append(trained, <<epoch, step>>)]_vars

\* two epochs were run and saved, with the recording pass in each of them; and
\* likewise without it
C11_Witness ==
    /\ args.checkpointing_steps.kind = "epoch"
    /\ save_log = <<[kind |-> "epoch", n |-> 0], [kind |-> "epoch", n |-> 1]>>
    /\ Len(trained) >= 2
    /\ opts.do_recording
    /\ recorded = <<0, 1>>

\* C12: a run from scratch on one process with 10 examples, batch size 4,
\* accumulation factor 2, one epoch and no --max_train_steps trains 3 batches,
\* takes exactly 2 optimizer steps (after batch 0 and after batch 2) and ends
\* with completed_steps = 2.
C12_TenExamplesScenario ==
    (/\ len_train_dataloader = BatchesPerProcess(10, 4, 1)
     /\ args.gradient_accumulation_steps = 2
     /\ args.given_num_train_epochs = 1
     /\ args.given_max_train_steps = NoMax
     /\ run = 1)
    => /\ optimizer_steps =
             Len(SelectSeq(trained, LAMBDA b : b \in {<<0, 0>>, <<0, 2>>}))
       /\ pc = "done" =>
             /\ trained = <<(<<0, 0>>), (<<0, 1>>), (<<0, 2>>)>>
             /\ optimizer_steps = 2
             /\ scheduler_steps = 2
             /\ completed_steps = 2
             /\ pending = 0

\* the scenario's run has ended
C12_Witness ==
    /\ len_train_dataloader = BatchesPerProcess(10, 4, 1)
    /\ args.gradient_accumulation_steps = 2
    /\ args.given_num_train_epochs = 1
    /\ args.given_max_train_steps = NoMax
    /\ run = 1
    /\ pc = "done"
    /\ Len(trained) = 3

\* C13: while continued training with distillation runs, the frozen reference
\* model holds the parameters the active model had when the primary phase of
\* this same run ended, for a run from scratch and for a resumed one.
C13_ReferenceIsPrimaryEnd ==
    (phase \in {"continue", "continue_eval"} /\ opts.do_lwf)
        => model_orig = primary_end

\* C14: during continued training with distillation no step changes the frozen
\* reference model's parameters: a continuation batch applies its optimizer step
\* to the active model only, and the validation that ends a continuation epoch
\* changes neither model.
C14_ReferenceFrozen ==
    [][(phase \in {"continue", "continue_eval"} /\ opts.do_lwf) =>
         /\ model_orig' = model_orig
         /\ model_orig # NoModel
         /\ cont_batches' = cont_batches + 1 => optimizer_steps' = optimizer_steps + 1
         /\ cont_batches' = cont_batches => optimizer_steps' = optimizer_steps]_vars

\* two continuation batches have been trained against the reference model: the
\* active model has moved on from the parameters the reference model still holds
C14_Witness ==
    /\ phase = "continue"
    /\ opts.do_lwf
    /\ cont_batches >= 2
    /\ model_orig = primary_end
    /\ optimizer_steps = model_orig + cont_batches

\* C15: a process calls save_pretrained at most once, only after the primary
\* loop, only if it is the main process, --output_dir was given and the run was
\* not started with --resume_from_checkpoint (and then it does call it); a
\* resumed process never calls it.
C15_FinalSaveOnceNotOnResume ==
    /\ final_saves <= 1
    /\ final_saves = 1 =>
          /\ opts.is_main_process
          /\ opts.output_dir
          /\ args.resume_from_checkpoint = NoCheckpoint
          /\ pc = "done"
          /\ output_dir_model = primary_end
    /\ args.resume_from_checkpoint # NoCheckpoint => final_saves = 0
    /\ (phase # "primary" /\ opts.is_main_process /\ opts.output_dir
            /\ args.resume_from_checkpoint = NoCheckpoint) => final_saves = 1

\* a resumed main process with --output_dir has gone past the final-save test
\* without writing, the run from scratch before it having written once
C15_Witness ==
    /\ run = 2
    /\ phase \in {"after_primary", "finished"}
    /\ opts.is_main_process
    /\ opts.output_dir
    /\ final_saves = 0
    /\ output_dir_model # NoModel
    /\ output_dir_model # primary_end

\* C16: the primary loop is only ever aborted by the weight lookup of a batch
\* under --train_with_sample_loss; the aborting iteration trains nothing (no
\* forward pass, no optimizer or scheduler step, no change of completed_steps,
\* of the pending gradients or of the checkpoints), and no step of the process
\* follows the abort.
C16_KeyErrorAbortsBeforeTheBatch ==
    [][/\ (pc' = "aborted" /\ pc # "aborted") =>
             /\ opts.train_with_sample_loss
             /\ pc = "batch"
             /\ last'.kind = "KeyError"
             /\ <<last'.epoch, last'.step>> = <<epoch, step>>
             /\ UNCHANGED <<trained, completed_steps, optimizer_steps, scheduler_steps,
                            zero_grads, pending, checkpoints, save_log, skipped,
                            epoch, step, phase, output_dir_model>>
       /\ pc = "aborted" => FALSE]_vars

\* the lookup failed on a batch after the process had trained earlier ones
C16_Witness ==
    /\ pc = "aborted"
    /\ opts.train_with_sample_loss
    /\ last.kind = "KeyError"
    /\ Len(trained) >= 2
    /\ optimizer_steps >= 1
    /\ <<last.epoch, last.step>> \notin Range(trained)

\* C19: in the continuation phase every step of the batch loop processes one
\* batch and takes exactly one optimizer step, one step of the continuation
\* scheduler and one zero_grad, whatever gradient_accumulation_steps is (no
\* gradient is left pending, completed_steps and the primary scheduler are not
\* touched), and no step of a continuation epoch runs a recording pass. An
\* iteration that raises at the weight lookup of line 977 processes no batch
\* and changes nothing.
C19_ContinuationStepsEveryBatch ==
    [][(phase \in {"continue", "continue_eval"}) =>
         /\ continue_scheduler_steps = cont_batches
         /\ (phase = "continue" /\ phase' # "unbound") => cont_batches' = cont_batches + 1
         /\ (phase = "continue" /\ phase' = "unbound") => cont_batches' = cont_batches
         /\ phase = "continue_eval" => cont_batches' = cont_batches
         /\ optimizer_steps' - optimizer_steps = cont_batches' - cont_batches
         /\ continue_scheduler_steps' - continue_scheduler_steps = cont_batches' - cont_batches
         /\ zero_grads' - zero_grads = cont_batches' - cont_batches
         /\ UNCHANGED <<pending, completed_steps, scheduler_steps, recorded>>]_vars

\* a continuation of two epochs of three batches with accumulation factor 2 has
\* taken six optimizer steps, after a primary phase that recorded its epochs
C19_Witness ==
    /\ phase = "finished"
    /\ args.gradient_accumulation_steps = 2
    /\ len_train_dataloader = 3
    /\ opts.continue_num_train_epochs = 2
    /\ cont_batches = 6
    /\ continue_scheduler_steps = 6
    /\ optimizer_steps = primary_end + 6
    /\ opts.do_recording
    /\ Len(recorded) = epoch - starting_epoch
    /\ recorded # <<>>

\* C17: with distillation, the loss backpropagated in a continuation step is
\* alpha * distill_loss + task_loss with alpha = 1/2, temperature 1 and the
\* step's task loss undivided, for every accumulation factor; with identical
\* class distributions the total is the task loss.
C17_DistilledLossUnscaled ==
    (call.fn = "continuation_loss" /\ result.status = "returned" /\ call.do_lwf)
        => /\ FracEq(result.value,
                     FracAdd(FracMul(Frac(1, 2), KLDivLoss(call.new, call.orig)),
                             Frac(call.task_loss, 1)))
           /\ call.new = call.orig => FracEq(result.value, Frac(call.task_loss, 1))

\* C18: with all weights equal to 1 the sample-weighted loss of a batch is the
\* plain mean of its per-example losses: sum(loss_i) / batch_size.
C18_UnitWeightsGiveMean ==
    (/\ call.fn = "loss_fct_with_sample_weights"
     /\ result.status = "returned"
     /\ \A i \in 1..Len(call.weights) : call.weights[i] = 1)
        => result.value.num * Len(call.losses) = SumSeq(call.losses) * result.value.den

\* a batch of two examples with different losses, both weights 1
C18_Witness ==
    /\ call.fn = "loss_fct_with_sample_weights"
    /\ result.status = "returned"
    /\ call.weights = <<1, 1>>
    /\ call.losses = <<1, 2>>
    /\ FracEq(result.value, Frac(3, 2))

\* C20: parse_args raises ValueError when task name, train file and validation
\* file are all absent, and AssertionError when a train or validation file is
\* given whose extension is not csv or json; when it raises, main never gets
\* to load a dataset (nor, with it, to train).
C20_ArgumentChecksFailFirst ==
    (call.fn = "parse_args") =>
        /\ result.status = "pending" => raw_datasets = "unloaded"
        /\ result.status # "pending" =>
              /\ (call.task_name = <<>> /\ call.train_file = <<>>
                     /\ call.validation_file = <<>>)
                   => result = [status |-> "raised", value |-> "ValueError"]
              /\ (\E f \in {call.train_file, call.validation_file} :
                     Len(f) >= 2 /\ f[Len(f)] \notin {"csv", "json"})
                   => result = [status |-> "raised", value |-> "AssertionError"]
              /\ result.status = "raised" => raw_datasets = "unloaded"

\* a task name and a csv train file are given, the validation file is a .tsv
C20_Witness ==
    /\ call.fn = "parse_args"
    /\ call.task_name # <<>>
    /\ call.train_file = <<"train", "csv">>
    /\ call.validation_file = <<"train", "tsv">>
    /\ result = [status |-> "raised", value |-> "AssertionError"]
    /\ raw_datasets = "unloaded"

\* C21: a step checkpoint is only saved on a batch that has just taken an
\* optimizer step and zeroed the gradients: no gradient is pending when it is
\* saved, for every accumulation factor and checkpoint interval.
C21_StepCheckpointClean ==
    (args.checkpointing_steps.kind = "int" /\ last.kind = "trained" /\ last.saved)
        => last.stepped /\ pending = 0

\* how often batch b occurs in a sequence of batches
Occurrences(seq, b) == Cardinality({i \in 1..Len(seq) : seq[i] = b})

\* C22: after a resume from step_S the batches skipped in the resumed epoch are
\* exactly the batches of that epoch the saving run had trained when it saved
\* the checkpoint, so that when the resumed epoch is over every batch of it has
\* been trained exactly once by the two runs together.
C22_SkippedWereTrained ==
    (ResumedFromStep
        /\ (trained # <<>> \/ epoch > starting_epoch \/ pc = "done")) =>
        /\ skipped = {b \in Range(loaded.trained) : b[1] = starting_epoch}
        /\ (epoch > starting_epoch /\ starting_epoch < args.num_train_epochs) =>
              \A st \in 0..len_train_dataloader - 1 :
                  Occurrences(loaded.trained \o trained, <<starting_epoch, st>>) = 1

\* C23: in the primary loop the gradient of every trained batch is applied by
\* exactly one optimizer step: an optimizer step applies the gradients of the
\* last 1..k trained batches, all of the same epoch, and no gradient is left
\* unapplied when the loop has ended; in every run, resumed or cut short.
C23_EachGradientAppliedOnce ==
    /\ last.stepped =>
          /\ last.window >= 1
          /\ last.window <= args.gradient_accumulation_steps
          /\ \A i \in (Len(trained) - last.window + 1)..Len(trained) :
                trained[i][1] = last.epoch
    /\ optimizer_steps - loaded.optimizer_steps <= Len(trained)
    /\ pc = "done" => pending = 0

\* the positions of a worker between its last training batch of an epoch and
\* the end of that epoch's recording pass
RecordingPcs == {"mkdir", "wait_dir", "gather", "write", "close", "written",
                 "wait_written"}

\* C24: from the end of a worker's last training batch of epoch E to the end
\* of epoch E's recording pass, no step of that worker changes its parameters
\* (the optimizer steps applied), its completed_steps or its epoch: the logits
\* recorded for epoch E come from the parameters the training of epoch E left.
C24_RecordingReadOnly ==
    [][\A w \in Processes :
          wpc[w] \in RecordingPcs =>
              /\ woptimizer'[w] = woptimizer[w]
              /\ wcompleted'[w] = wcompleted[w]
              /\ wepoch'[w] = wepoch[w]
              /\ wpc'[w] \in RecordingPcs \cup {"eval"}]_vars

\* the second epoch's recording pass of a two-worker run is over: the file is
\* closed and the worker's parameters are those its training steps produced
C24_Witness ==
    /\ env.do_recording
    /\ env.num_processes = 2
    /\ \E w \in Processes :
          /\ wpc[w] = "wait_written"
          /\ wepoch[w] = 1
          /\ woptimizer[w] >= 2
          /\ woptimizer[w] = wcompleted[w]
    /\ dynamics_file[1] = "closed"

\* C25: the recording pass visits the training set in dataset order: the guids
\* written to an epoch's file follow the order of the examples in the dataset
\* (and so are the same sequence in every epoch).
C25_RecordedInDatasetOrder ==
    (env.do_recording /\ env.idx_column = "idx" /\ dynamics_file[writer.epoch] = "open")
        => \A i \in 1..Len(writer.records) : writer.records[i].guid = IdxOf("idx", i - 1)

\* the orders in which the processes' contributions to a gather can be laid out
FlattenOrders(W) == {p \in [1..W -> 0..W - 1] : \A i, j \in 1..W : p[i] = p[j] => i = j}

\* the gathered batch with the contributions laid out in the order p
RECURSIVE GatherIn(_, _, _, _, _, _)
GatherIn(p, i, ord, t, W, b) ==
    IF i > W THEN <<>>
    ELSE Shard(ord, p[i], t, W, b) \o GatherIn(p, i + 1, ord, t, W, b)

\* lines 766-786 over batches t..n-1 with the contributions laid out in the order p
RECURSIVE RecordEpochIn(_, _, _, _, _, _, _, _, _)
RecordEpochIn(p, ord, t, n, W, b, ids, dyn, column) ==
    IF t >= n THEN dyn
    ELSE LET r == RecordGathered(GatherIn(p, 1, ord, t, W, b), ids, dyn, column, 0, 0)
         IN RecordEpochIn(p, ord, t + 1, n, W, b, r.all_ids, r.training_dynamics, column)

\* everything one epoch's gathers return, in iteration order
RECURSIVE Flattened(_, _, _, _, _)
Flattened(ord, t, n, W, b) ==
    IF t >= n THEN <<>>
    ELSE Gather(ord, t, W, b) \o Flattened(ord, t + 1, n, W, b)

GuidsWithGold(records) == {<<records[i].guid, records[i].gold>> : i \in 1..Len(records)}

\* the first position of guid g in the gathered results
FirstOccurrence(flat, column, g) ==
    CHOOSE j \in 1..Len(flat) :
        /\ IdxOf(column, flat[j]) = g
        /\ \A k \in 1..j - 1 : IdxOf(column, flat[k]) # g

\* C26 (first half): the record kept for a guid is the one of its first
\* occurrence in the gathered, flattened results of the epoch.
C26_FirstOccurrenceKept ==
    (env.do_recording /\ dynamics_file[writer.epoch] = "open") =>
        LET flat == Flattened(order, 0, len_train_dataloader, env.num_processes,
                              env.batch_size)
        IN \A i \in 1..Len(writer.records) :
              LET g == writer.records[i].guid
              IN /\ \E j \in 1..Len(flat) : IdxOf(env.idx_column, flat[j]) = g
                 /\ writer.records[i].gold =
                        LabelOf(flat[FirstOccurrence(flat, env.idx_column, g)])

\* C26: the record kept for a guid is its first occurrence in the gathered
\* results, and the set of guids written, each with its gold label, is the same
\* whichever order the processes' contributions to a gather are laid out in.
C26_DedupOrderIndependent ==
    /\ C26_FirstOccurrenceKept
    /\ (env.do_recording /\ dynamics_file[writer.epoch] = "open") =>
          \A p \in FlattenOrders(env.num_processes) :
              GuidsWithGold(RecordEpochIn(p, order, 0, len_train_dataloader,
                                          env.num_processes, env.batch_size,
                                          <<>>, <<>>, env.idx_column))
                  = GuidsWithGold(writer.records)

\* the same with distinct idx values (every task but mnli)
C26_DistinctIdx == env.idx_column = "idx" => C26_DedupOrderIndependent

\* the positions where a process waits inside a collective
WaitingPcs == {"wait_dir", "gather", "wait_written"}

\* two processes inside their c-th collective are inside the same call: the same
\* barrier, or the gather of the same batch, of the same epoch
CollectivesMatch ==
    \A w, v \in Processes :
        (wpc[w] \in WaitingPcs /\ wpc[v] \in WaitingPcs /\ arrived[w] = arrived[v]) =>
            /\ wpc[w] = wpc[v]
            /\ wepoch[w] = wepoch[v]
            /\ wstep[w] = wstep[v]

RecordingComplete ==
    /\ \A w \in Processes : wpc[w] = "done" /\ arrived[w] =
                                  args.num_train_epochs * (len_train_dataloader + 2)
    /\ \A e \in DOMAIN dynamics_file : dynamics_file[e] = "closed"

\* C27: with two or more workers and recording enabled, the workers go through
\* the same sequence of barriers and gathers in every epoch, and under fair
\* scheduling none of them waits forever: every epoch's recording completes on
\* every worker.
C27_RecordingCompletes ==
    /\ []((env.do_recording /\ env.num_processes >= 2) => CollectivesMatch)
    /\ <>[]((env.do_recording /\ env.num_processes >= 2) => RecordingComplete)

\* two workers have both been through the recording of two epochs
C27_Witness ==
    /\ env.do_recording
    /\ env.num_processes = 2
    /\ args.num_train_epochs = 2
    /\ len_train_dataloader = 2
    /\ RecordingComplete

\* C28: with an integer checkpointing_steps, no step_N name is handed to
\* save_state twice during one run of the process, whatever the accumulation
\* factor.
C28_StepSavedAtMostOnce ==
    args.checkpointing_steps.kind = "int" =>
        \A i, j \in 1..Len(save_log) :
            (save_log[i].kind = "step" /\ save_log[i] = save_log[j]) => i = j

\* lines 594-601: lr_scheduler is built with num_training_steps = max_train_steps
C29_PrimaryScheduler == scheduler_steps <= args.max_train_steps

\* lines 962-969: continue_lr_scheduler is built with num_training_steps =
\* continue_num_train_epochs * ceil(n / k)
C29_ContinuationScheduler ==
    continue_scheduler_steps <=
        opts.continue_num_train_epochs *
            CeilDiv(len_train_dataloader, args.gradient_accumulation_steps)

\* C29: the scheduler of each phase is stepped at most as many times as the
\* num_training_steps it was built with: max_train_steps in the primary phase,
\* continue_num_train_epochs * ceil(n / k) in the continuation phase.
C29_SchedulerWithinBuiltSteps ==
    /\ C29_PrimaryScheduler
    /\ C29_ContinuationScheduler

\* C30: a run resumed from epoch_N and run to completion takes, in the epochs
\* after N, as many optimizer steps as the uninterrupted run took in those
\* epochs (the steps the uninterrupted run took after saving epoch_N).
C30_EpochResumeSameSteps ==
    (ResumedFromEpoch /\ pc = "done") =>
        optimizer_steps - loaded.optimizer_steps =
            first_run.optimizer_steps - loaded.optimizer_steps

\* C31: whenever batch 0 of an epoch is trained (not skipped), it takes an
\* optimizer step, and that step applies the gradient of this one batch only,
\* for every accumulation factor.
C31_FirstBatchFlushesAlone ==
    (last.kind = "trained" /\ last.step = 0) => last.stepped /\ last.window = 1

\* the same for a run from scratch
C31_FromScratch == run = 1 => C31_FirstBatchFlushesAlone

\* the collectives of one recording pass: two barriers and a gather per batch
CollectivesPerRecording == len_train_dataloader + 2

\* C32: with recording enabled every process runs the recording pass exactly
\* once in every iteration of the epoch loop, an epoch cut short by the
\* max-step limit included, after the epoch's batches and before its
\* evaluation, and the main process has then written the epoch's file; with
\* recording disabled no process ever enters the pass and no file is written.
C32_RecordingOncePerEpoch ==
    /\ env.do_recording =>
          \A w \in Processes :
              /\ wpc[w] = "batch" => arrived[w] = wepoch[w] * CollectivesPerRecording
              /\ wpc[w] = "eval" =>
                    /\ arrived[w] = (wepoch[w] + 1) * CollectivesPerRecording
                    /\ dynamics_file[wepoch[w]] = "closed"
              /\ wpc[w] = "done" =>
                    /\ arrived[w] = args.num_train_epochs * CollectivesPerRecording
                    /\ \A e \in DOMAIN dynamics_file : dynamics_file[e] = "closed"
    /\ ~env.do_recording =>
          /\ \A w \in Processes : wpc[w] \notin RecordingPcs /\ arrived[w] = 0
          /\ \A e \in DOMAIN dynamics_file : dynamics_file[e] = "absent"
          /\ writer.records = <<>>

\* epoch 1 was cut short after its first batch and has been recorded
C32_Witness ==
    /\ env.do_recording
    /\ args.gradient_accumulation_steps = 2
    /\ len_train_dataloader = 2
    /\ wpc[0] = "eval"
    /\ wepoch[0] = 1
    /\ wcompleted[0] = 3
    /\ arrived[0] = 2 * CollectivesPerRecording
    /\ dynamics_file[1] = "closed"

\* the run without recording reaches its end
C32_WitnessDisabled ==
    /\ ~env.do_recording
    /\ env.num_processes = 2
    /\ args.num_train_epochs = 2
    /\ \A w \in Processes : wpc[w] = "done"

\* C33: within a process completed_steps never decreases during the primary
\* loop, and the step from one epoch to the next leaves it as it is: the first
\* batch of epoch e + 1 starts with the value epoch e ended with.
C33_CompletedStepsMonotone ==
    [][run' = run =>
          /\ completed_steps' >= completed_steps
          /\ epoch' # epoch => completed_steps' = completed_steps]_vars

\* the third epoch of a run from scratch starts with the steps of the first two
C33_Witness ==
    /\ run = 1
    /\ epoch = 2
    /\ pc = "batch"
    /\ step = 0
    /\ args.gradient_accumulation_steps = 1
    /\ len_train_dataloader >= 2
    /\ completed_steps = 2 * len_train_dataloader

\* a resumed run has gone from its epoch of skipped batches into the next
C33_WitnessResumed ==
    /\ run = 2
    /\ skipped # {}
    /\ epoch = starting_epoch + 1
    /\ pc = "batch"
    /\ step = 1
    /\ completed_steps >= 3

\* C34: under --continue_train_with_sample_loss the table of sample weights is
\* bound whenever the continuation loop is about to process a batch, whatever
\* the primary phase did.
C34_WeightsLoadedForContinuation ==
    (phase = "continue" /\ opts.continue_train_with_sample_loss) => Idx2WeightBound

\* C35: when a validation pass has run through the validation set, every
\* example of the set has given the metric exactly one (prediction, reference)
\* pair, so the number of pairs is the size of the set, for one process and for
\* several (whose last gathered batch is padded).
C35_ValidationPairsEqualSetSize ==
    (call.fn = "evaluation" /\ call.pass = "validation" /\ result.status = "returned") =>
        /\ Len(result.value.added) = call.num_examples
        /\ \A x \in 0..call.num_examples - 1 : Occurrences(result.value.added, x) = 1

\* two processes, three examples, batches of two: the gathered batch holds four
\* results and three were added
C35_Witness ==
    /\ call.fn = "evaluation"
    /\ call.pass = "validation"
    /\ call.num_processes = 2
    /\ call.num_examples = 3
    /\ call.batch_size = 2
    /\ result.status = "returned"
    /\ Len(Gather(DatasetOrder(3), 0, 2, 2)) = 4
    /\ result.value.added = <<0, 1, 2>>

\* C36: when one of the evaluation passes after training has run through its
\* split, every example of the split has given the metric exactly one
\* (prediction, reference) pair, for any number of processes.
C36_ExtraEvalOnePairPerExample ==
    (call.fn = "evaluation" /\ call.pass = "extra" /\ result.status = "returned") =>
        \A x \in 0..call.num_examples - 1 : Occurrences(result.value.added, x) = 1

TypeOK ==
    /\ pc \in {"batch", "epoch_end", "done", "aborted"}
    /\ run \in {1, 2}
    /\ completed_steps \in Nat
    /\ pending \in Nat
====
